---- MODULE Spec2Model ----
(***************************************************************************)
(* Seega over RPC: the rules engine (src/game.py, class SeegaGame) and the *)
(* session coordinator (src/server.py, class SeegaRPCServer).              *)
(*                                                                         *)
(* A notification is a tuple of its space-separated tokens:                *)
(*   f"MOVE {x} {y} {symbol}"  is  <<"MOVE", x, y, symbol>>.               *)
(* A handler runs on a server thread; a handler that takes the lock holds  *)
(* it until its last mailbox append, and the unlocked handlers (chat,      *)
(* resign) interleave with everything at the grain of one mailbox append.  *)
(***************************************************************************)
EXTENDS Integers, Sequences, FiniteSets, TLC

VARIABLES
    board,                  \* SeegaGame.board: cell -> " " | "X" | "O"
    turn,                   \* SeegaGame.turn
    pieces,                 \* SeegaGame.pieces
    phase,                  \* SeegaGame.phase
    placements_this_turn,   \* SeegaGame.placements_this_turn
    players,                \* SeegaRPCServer.players
    messages,               \* SeegaRPCServer.messages: pid -> pending notifications
    lock,                   \* SeegaRPCServer.lock: 0 when free, else the holding thread
    pc,                     \* position of every server thread inside its handler
    ret,                    \* what the most recently started call returns
    log,                    \* history: every notification ever appended to each mailbox
    ndrained,               \* history: how many notifications each participant's polls returned
    nmoves,                 \* history: successful moves so far
    nchat,                  \* history: chat and resign calls so far
    view                    \* SeegaClientRPC.cells of every participant's client:
                            \* cell -> "" | "X" | "O"

game_vars == <<board, turn, pieces, phase, placements_this_turn>>
server_vars == <<players, messages, lock, pc, ret>>
history_vars == <<log, ndrained, nmoves, nchat, view>>
vars == <<board, turn, pieces, phase, placements_this_turn,
          players, messages, lock, pc, ret, log, ndrained, nmoves, nchat, view>>

-----------------------------------------------------------------------------
(* Program constants *)

BoardSize == 5
InitialPieces == 12
MaxPlayers == 2

(* Bounds of the exploration *)

NumThreads == 2         \* server threads that can be inside a handler at once
MaxMoves == 2           \* successful moves explored after the placement
MaxPending == 0         \* beside chat and resign, a placement starts only when no
                        \* mailbox holds more than this many notifications
MaxChats == 2           \* chat and resign calls explored
MaxConcPlaced == 1      \* placements explored together with chat and resign

Rows == 0..(BoardSize - 1)
Cells == Rows \X Rows
Coords == (0 - 1)..BoardSize
(* The sources a client moves from: every cell and two places off the     *)
(* board. What it adds to the source to get the destination: the four      *)
(* single steps, no step, a diagonal step and a double step.               *)
MoveSources == Cells \cup {<<0 - 1, 2>>, <<2, BoardSize>>}
Deltas == {<<0 - 1, 0>>, <<1, 0>>, <<0, 0 - 1>>, <<0, 1>>,
           <<0, 0>>, <<1, 1>>, <<0, 2>>}
Sides == {"X", "O"}
Threads == 1..NumThreads
PIDs == {0, 1}
Texts == {"oi"}
NoWinner == "None"
Center == <<2, 2>>

-----------------------------------------------------------------------------
(* Replies of the engine and of the coordinator *)

WrongPhasePlace == <<"Fase 1 encerrada. Use 'move x1 y1 x2 y2'.">>
InvalidPosition == <<"Posição inválida.">>
AllotmentExhausted == <<"Você já colocou todas as suas peças.">>
PlaceOk == <<"Peça colocada com sucesso.">>
WrongPhaseMove == <<"Ainda estamos na fase de colocação.">>
NotOwner == <<"Você só pode mover suas próprias peças.">>
DestinationOccupied == <<"A posição de destino está ocupada.">>
IllegalDistance == <<"Movimento inválido. Só é permitido mover uma casa na horizontal ou vertical.">>
MoveOk == <<"Peça movida com sucesso.">>
CaptureOk == <<"Captura realizada! Você pode jogar novamente.">>
GameEnded(winner) == <<"Jogo encerrado!", winner, "venceu!">>
NotYourTurn == <<"Não é sua vez.">>

MoveMsg4(x, y, symbol) == <<"MOVE", x, y, symbol>>
MoveMsg6(x1, y1, x2, y2, symbol) == <<"MOVE", x1, y1, x2, y2, symbol>>
TurnMsg(t, ph) == <<"TURN", t, ph>>
CaptureMsg(i, j) == <<"CAPTURE", i, j>>
GameOverMsg(winner) == <<"GAME_OVER", winner, "venceu!">>
ChatMsg(symbol, message) == <<"CHAT", symbol, ":", message>>
ResignMsg(winner) == <<"GAME_OVER", "Jogador", winner, "venceu", "por", "desistência.">>

-----------------------------------------------------------------------------
(* SeegaGame *)

Other(s) == IF s = "X" THEN "O" ELSE "X"

Abs(n) == IF n < 0 THEN 0 - n ELSE n

is_valid_position(x, y) == 0 <= x /\ x < BoardSize /\ 0 <= y /\ y < BoardSize

directions == << <<0 - 1, 0>>, <<1, 0>>, <<0, 0 - 1>>, <<0, 1>> >>

(* Mutant of custodial: the cell beyond the enemy piece is not looked at. *)
custodial_without_beyond(b, t, adj, opp) ==
    is_valid_position(adj[1], adj[2]) /\ b[adj] = Other(t)

(* The two tests of check_capture's loop (game.py 125-129): the adjacent  *)
(* cell holds an enemy piece and the cell beyond it one of side t.         *)
custodial(b, t, adj, opp) ==
    /\ is_valid_position(adj[1], adj[2])
    /\ b[adj] = Other(t)
    /\ is_valid_position(opp[1], opp[2])
    /\ b[opp] = t

(* The body of check_capture's loop, from direction i on: b, p and c are   *)
(* the board, the piece counters and the captured flag so far.             *)
RECURSIVE capture_loop(_, _, _, _, _, _, _)
capture_loop(b, p, c, t, x, y, i) ==
    IF i > Len(directions) THEN [board |-> b, pieces |-> p, captured |-> c]
    ELSE LET enemy == Other(t)
             dx == directions[i][1]
             dy == directions[i][2]
             adj == <<x + dx, y + dy>>
             opp == <<x + 2 * dx, y + 2 * dy>>
         IN IF custodial(b, t, adj, opp)
            THEN capture_loop([b EXCEPT ![adj] = " "],
                              [p EXCEPT ![enemy] = @ - 1], TRUE, t, x, y, i + 1)
            ELSE capture_loop(b, p, c, t, x, y, i + 1)

check_capture(b, p, t, x, y) == capture_loop(b, p, FALSE, t, x, y, 1)

Count(b, s) == Cardinality({c \in Cells : b[c] = s})

(* Mutant of UniformRow: a row of five empty cells counts as a line. *)
UniformRow_any_symbol(b, r) == \A c \in Rows : b[<<r, c>>] = b[<<r, 0>>]

UniformRow(b, r) == b[<<r, 0>>] \in Sides /\ \A c \in Rows : b[<<r, c>>] = b[<<r, 0>>]
UniformCol(b, c) == b[<<0, c>>] \in Sides /\ \A r \in Rows : b[<<r, c>>] = b[<<0, c>>]
First(S) == CHOOSE n \in S : \A m \in S : n <= m

check_win(b, ph) ==
    IF ph # 2 THEN NoWinner
    ELSE IF Count(b, "X") = 0 THEN "O"
    ELSE IF Count(b, "O") = 0 THEN "X"
    ELSE IF \E r \in Rows : UniformRow(b, r)
         THEN b[<<First({r \in Rows : UniformRow(b, r)}), 0>>]
    ELSE IF \E c \in Rows : UniformCol(b, c)
         THEN b[<<0, First({c \in Rows : UniformCol(b, c)})>>]
    ELSE NoWinner

(* What a call of the engine leaves behind: the (success, message) pair it *)
(* returns and the engine's fields after it.                               *)
Outcome(ok, msg, b, t, p, ph, n) ==
    [ok |-> ok, msg |-> msg, board |-> b, turn |-> t, pieces |-> p, phase |-> ph,
     placements_this_turn |-> n]

(* Mutant of Refused: the placement counter is bumped before the checks. *)
Refused_after_counting(msg) ==
    Outcome(FALSE, msg, board, turn, pieces, phase, placements_this_turn + 1)

(* `return False, msg`: nothing was written before the checks. *)
Refused(msg) == Outcome(FALSE, msg, board, turn, pieces, phase, placements_this_turn)

(* Mutant of blocked_for_placement: the center cell is not excluded. *)
blocked_for_placement_center_open(x, y) ==
    ~is_valid_position(x, y) \/ board[<<x, y>>] # " "

(* The second test of place_piece (game.py 53). *)
blocked_for_placement(x, y) ==
    ~is_valid_position(x, y) \/ board[<<x, y>>] # " " \/ (x = 2 /\ y = 2)

(* Mutant of phase_after_placement: one exhausted allotment is enough. *)
phase_after_placement_either(p) ==
    IF p["X"] = 0 \/ p["O"] = 0 THEN 2 ELSE phase

(* The phase after a placement that leaves the counters p (game.py 66-67). *)
phase_after_placement(p) ==
    IF p["X"] = 0 /\ p["O"] = 0 THEN 2 ELSE phase

(* Mutants of turn_is_over: the turn passes after one placement; after    *)
(* three.                                                                  *)
turn_is_over_after_one(n) == n = 1
turn_is_over_after_three(n) == n = 3

(* The test that ends a side's turn of placements (game.py 62). *)
turn_is_over(n) == n = 2

SeegaGame_place_piece(x, y) ==
    IF phase # 1 THEN Refused(WrongPhasePlace)
    ELSE IF blocked_for_placement(x, y) THEN Refused(InvalidPosition)
    ELSE IF pieces[turn] <= 0 THEN Refused(AllotmentExhausted)
    ELSE LET b1 == [board EXCEPT ![<<x, y>>] = turn]
             p1 == [pieces EXCEPT ![turn] = @ - 1]
             n1 == placements_this_turn + 1
             t2 == IF turn_is_over(n1) THEN Other(turn) ELSE turn
             n2 == IF turn_is_over(n1) THEN 0 ELSE n1
         IN Outcome(TRUE, PlaceOk, b1, t2, p1, phase_after_placement(p1), n2)

(* Mutant of single_step: any distance is accepted. *)
single_step_any(x1, y1, x2, y2) == TRUE

(* The last test of move_piece (game.py 91). *)
single_step(x1, y1, x2, y2) == Abs(x1 - x2) + Abs(y1 - y2) = 1

(* Mutants of turn_after_move: the turn always passes; it never passes. *)
turn_after_move_always_passes(t, captured, winner) == Other(t)
turn_after_move_never_passes(t, captured, winner) == t

(* Who is to move after a successful move by t (game.py 98-105). *)
turn_after_move(t, captured, winner) ==
    IF winner # NoWinner THEN t
    ELSE IF ~captured THEN Other(t)
    ELSE t

SeegaGame_move_piece(x1, y1, x2, y2) ==
    IF phase # 2 THEN Refused(WrongPhaseMove)
    ELSE IF ~(is_valid_position(x1, y1) /\ is_valid_position(x2, y2))
         THEN Refused(InvalidPosition)
    ELSE IF board[<<x1, y1>>] # turn THEN Refused(NotOwner)
    ELSE IF board[<<x2, y2>>] # " " THEN Refused(DestinationOccupied)
    ELSE IF ~single_step(x1, y1, x2, y2) THEN Refused(IllegalDistance)
    ELSE LET b1 == [[board EXCEPT ![<<x2, y2>>] = turn] EXCEPT ![<<x1, y1>>] = " "]
             cap == check_capture(b1, pieces, turn, x2, y2)
             winner == check_win(cap.board, phase)
             msg == IF winner # NoWinner THEN GameEnded(winner)
                    ELSE IF ~cap.captured THEN MoveOk
                    ELSE CaptureOk
         IN Outcome(TRUE, msg, cap.board, turn_after_move(turn, cap.captured, winner),
                    cap.pieces, phase, placements_this_turn)

(* The engine's fields become those of outcome r. *)
Commit(r) ==
    /\ board' = r.board
    /\ turn' = r.turn
    /\ pieces' = r.pieces
    /\ phase' = r.phase
    /\ placements_this_turn' = r.placements_this_turn

-----------------------------------------------------------------------------
(* SeegaRPCServer *)

get_symbol(pid) == IF pid = 0 THEN "X" ELSE "O"

(* The keys of self.messages in iteration order (insertion order). *)
Keys == <<0, 1>>

Idle == [kind |-> "idle", out |-> <<>>, key |-> 1, pid |-> 0, msgs |-> <<>>]
Broadcasting(out) == [kind |-> "broadcast", out |-> out, key |-> 1, pid |-> 0, msgs |-> <<>>]
Polling(pid, msgs) == [kind |-> "poll", out |-> <<>>, key |-> 1, pid |-> pid, msgs |-> msgs]

Reply(op, msgs, code) == [op |-> op, msgs |-> msgs, code |-> code]

(* Mutant of session_has_room: off by one. *)
session_has_room_for_third == Len(players) <= MaxPlayers

(* The test of register_player (server.py 31). *)
session_has_room == Len(players) < MaxPlayers

(* register_player, whole: it holds the lock from its test to its return. *)
register_player(t) ==
    /\ lock = 0
    /\ pc[t].kind = "idle"
    /\ IF session_has_room
       THEN LET pid == Len(players)
            IN /\ players' = Append(players, pid)
               /\ messages' = [messages EXCEPT ![pid] = <<>>]
               /\ ret' = Reply("register_player", <<>>, pid)
       ELSE /\ ret' = Reply("register_player", <<>>, 0 - 1)
            /\ UNCHANGED <<players, messages>>
    /\ UNCHANGED <<game_vars, lock, pc>>

(* Mutant of place_msgs: the winner is not looked for after a placement. *)
place_msgs_without_game_over(x, y, pid, r) ==
    <<MoveMsg4(x, y, get_symbol(pid)), TurnMsg(r.turn, r.phase)>>

(* The notifications of a successful placement (server.py 71-76). *)
place_msgs(x, y, pid, r) ==
    LET winner == check_win(r.board, r.phase)
    IN <<MoveMsg4(x, y, get_symbol(pid)), TurnMsg(r.turn, r.phase)>>
       \o (IF winner # NoWinner THEN <<GameOverMsg(winner)>> ELSE <<>>)

(* place_piece up to its first broadcast: the turn test, the engine call   *)
(* and the list of notifications; on success it keeps the lock.            *)
place_piece(t, x, y, pid) ==
    /\ lock = 0
    /\ pc[t].kind = "idle"
    /\ IF turn # get_symbol(pid)
       THEN /\ ret' = Reply("place_piece", <<NotYourTurn>>, 0)
            /\ UNCHANGED <<game_vars, lock, pc>>
       ELSE \E r \in {SeegaGame_place_piece(x, y)} :
               /\ Commit(r)
               /\ IF ~r.ok
                  THEN /\ ret' = Reply("place_piece", <<r.msg>>, 0)
                       /\ UNCHANGED <<lock, pc>>
                  ELSE \E msgs \in {place_msgs(x, y, pid, r)} :
                       /\ ret' = Reply("place_piece", msgs, 0)
                       /\ lock' = t
                       /\ pc' = [pc EXCEPT ![t] = Broadcasting(msgs)]
    /\ UNCHANGED <<players, messages>>

(* Mutant of reported_as_capture: the source of the move is not excluded. *)
reported_as_capture_with_source(before, after, i, j, x1, y1) ==
    before[<<i, j>>] # " " /\ after[<<i, j>>] = " "

(* The test of the before/after comparison (server.py 123). *)
reported_as_capture(before, after, i, j, x1, y1) ==
    before[<<i, j>>] # " " /\ after[<<i, j>>] = " " /\ (i # x1 \/ j # y1)

(* The cells the before/after comparison reports, in scan order from cell  *)
(* number k (row-major) on (server.py 121-124).                            *)
RECURSIVE capture_msgs(_, _, _, _, _)
capture_msgs(before, after, x1, y1, k) ==
    IF k >= BoardSize * BoardSize THEN <<>>
    ELSE LET i == k \div BoardSize
             j == k % BoardSize
         IN (IF reported_as_capture(before, after, i, j, x1, y1)
             THEN <<CaptureMsg(i, j)>> ELSE <<>>)
            \o capture_msgs(before, after, x1, y1, k + 1)

(* Mutant of move_msgs: the TURN notification is built before the engine  *)
(* call, from the side that was to move.                                   *)
move_msgs_turn_before(x1, y1, x2, y2, pid, before, r) ==
    LET winner == check_win(r.board, r.phase)
    IN <<MoveMsg6(x1, y1, x2, y2, get_symbol(pid)), TurnMsg(turn, phase)>>
       \o capture_msgs(before, r.board, x1, y1, 0)
       \o (IF winner # NoWinner THEN <<GameOverMsg(winner)>> ELSE <<>>)

(* The notifications of a successful move (server.py 116-128). *)
move_msgs(x1, y1, x2, y2, pid, before, r) ==
    LET winner == check_win(r.board, r.phase)
    IN <<MoveMsg6(x1, y1, x2, y2, get_symbol(pid)), TurnMsg(r.turn, r.phase)>>
       \o capture_msgs(before, r.board, x1, y1, 0)
       \o (IF winner # NoWinner THEN <<GameOverMsg(winner)>> ELSE <<>>)

(* move_piece up to its first broadcast. *)
move_piece(t, x1, y1, x2, y2, pid) ==
    /\ lock = 0
    /\ pc[t].kind = "idle"
    /\ IF turn # get_symbol(pid)
       THEN /\ ret' = Reply("move_piece", <<NotYourTurn>>, 0)
            /\ UNCHANGED <<game_vars, lock, pc>>
       ELSE \E r \in {SeegaGame_move_piece(x1, y1, x2, y2)} :
               /\ Commit(r)
               /\ IF ~r.ok
                  THEN /\ ret' = Reply("move_piece", <<r.msg>>, 0)
                       /\ UNCHANGED <<lock, pc>>
                  ELSE \E msgs \in {move_msgs(x1, y1, x2, y2, pid, board, r)} :
                       /\ ret' = Reply("move_piece", msgs, 0)
                       /\ lock' = t
                       /\ pc' = [pc EXCEPT ![t] = Broadcasting(msgs)]
    /\ UNCHANGED <<players, messages>>

(* chat and resign up to their broadcast: neither takes the lock. *)
chat(t, pid, message) ==
    /\ pc[t].kind = "idle"
    /\ pc' = [pc EXCEPT ![t] = Broadcasting(<<ChatMsg(get_symbol(pid), message)>>)]
    /\ ret' = Reply("chat", <<>>, 1)
    /\ UNCHANGED <<game_vars, players, messages, lock>>

resign(t, pid) ==
    /\ pc[t].kind = "idle"
    /\ pc' = [pc EXCEPT ![t] = Broadcasting(<<ResignMsg(get_symbol(1 - pid))>>)]
    /\ ret' = Reply("resign", <<>>, 1)
    /\ UNCHANGED <<game_vars, players, messages, lock>>

(* One iteration of _broadcast's loop by thread t: the first pending       *)
(* notification goes to the next mailbox. After the last mailbox of the    *)
(* last notification the handler returns, releasing the lock if it has it. *)
broadcast_append(t) ==
    /\ pc[t].kind = "broadcast"
    /\ LET m == Head(pc[t].out)
           k == Keys[pc[t].key]
       IN /\ messages' = [messages EXCEPT ![k] = Append(@, m)]
          /\ IF pc[t].key < Len(Keys)
             THEN /\ pc' = [pc EXCEPT ![t].key = @ + 1]
                  /\ UNCHANGED lock
             ELSE IF Len(pc[t].out) > 1
             THEN /\ pc' = [pc EXCEPT ![t].out = Tail(@), ![t].key = 1]
                  /\ UNCHANGED lock
             ELSE /\ pc' = [pc EXCEPT ![t] = Idle]
                  /\ lock' = IF lock = t THEN 0 ELSE lock
    /\ UNCHANGED <<game_vars, players, ret>>

(* poll_messages, line 173: under the lock, copy the mailbox. *)
poll_messages_copy(t, pid) ==
    /\ lock = 0
    /\ pc[t].kind = "idle"
    /\ lock' = t
    /\ pc' = [pc EXCEPT ![t] = Polling(pid, messages[pid])]
    /\ UNCHANGED <<game_vars, players, messages, ret>>

(* poll_messages, lines 174-175: replace the mailbox by an empty one,      *)
(* return the copy and release the lock.                                   *)
poll_messages_clear(t) ==
    /\ pc[t].kind = "poll"
    /\ messages' = [messages EXCEPT ![pc[t].pid] = <<>>]
    /\ ret' = Reply("poll_messages", pc[t].msgs, pc[t].pid)
    /\ lock' = 0
    /\ pc' = [pc EXCEPT ![t] = Idle]
    /\ UNCHANGED <<game_vars, players>>

-----------------------------------------------------------------------------
(* SeegaClientRPC: what a client does to its cells with the notifications  *)
(* its polls return.                                                       *)

update_cell(v, x, y, symbol) == [v EXCEPT ![<<x, y>>] = symbol]

(* Mutant of process_message: a move does not clear the cell it leaves. *)
process_message_source_kept(v, msg) ==
    IF msg[1] = "MOVE"
    THEN IF Len(msg) = 4 THEN update_cell(v, msg[2], msg[3], msg[4])
         ELSE IF Len(msg) = 6 THEN update_cell(v, msg[4], msg[5], msg[6])
         ELSE v
    ELSE IF msg[1] = "CAPTURE" THEN update_cell(v, msg[2], msg[3], "")
    ELSE v

(* process_message (ui.py 139-178): the cells after notification msg; the  *)
(* TURN, CHAT and GAME_OVER branches leave the cells alone.                *)
process_message(v, msg) ==
    IF msg[1] = "MOVE"
    THEN IF Len(msg) = 4 THEN update_cell(v, msg[2], msg[3], msg[4])
         ELSE IF Len(msg) = 6
         THEN update_cell(update_cell(v, msg[2], msg[3], ""), msg[4], msg[5], msg[6])
         ELSE v
    ELSE IF msg[1] = "CAPTURE" THEN update_cell(v, msg[2], msg[3], "")
    ELSE v

(* The notifications of one poll, processed in the order they came. *)
RECURSIVE process_gui_queue(_, _)
process_gui_queue(v, msgs) ==
    IF msgs = <<>> THEN v
    ELSE process_gui_queue(process_message(v, Head(msgs)), Tail(msgs))

-----------------------------------------------------------------------------
(* Construction *)

Init ==
    /\ board = [c \in Cells |-> " "]
    /\ turn = "X"
    /\ pieces = [s \in Sides |-> InitialPieces]
    /\ phase = 1
    /\ placements_this_turn = 0
    /\ players = <<>>
    /\ messages = [p \in PIDs |-> <<>>]
    /\ lock = 0
    /\ pc = [t \in Threads |-> Idle]
    /\ ret = Reply("init", <<>>, 0)
    /\ log = [p \in PIDs |-> <<>>]
    /\ ndrained = [p \in PIDs |-> 0]
    /\ nmoves = 0
    /\ nchat = 0
    /\ view = [p \in PIDs |-> [c \in Cells |-> ""]]

-----------------------------------------------------------------------------
(* The clients.                                                            *)
(*                                                                         *)
(* A call arrives on the lowest idle server thread. Every refused input is *)
(* explored; of the placements the engine accepts, those are explored that *)
(* build one of the target boards, each side filling its cells of the      *)
(* target in row-major order.                                              *)

Target1 ==
    << <<"O", "X", "X", "X", "O">>,
       <<"O", "O", "X", "O", "X">>,
       <<"X", "O", " ", "O", "X">>,
       <<"X", "O", "O", "O", "X">>,
       <<"O", "X", "X", "X", "O">> >>

Target2 ==
    << <<"X", "X", "O", "X", "X">>,
       <<"X", "O", "O", "O", "X">>,
       <<"O", "X", " ", "X", "O">>,
       <<"X", "O", "O", "O", "X">>,
       <<"X", "O", "O", "O", "X">> >>

Target3 ==
    << <<"X", "X", "X", "O", "X">>,
       <<"X", "X", "O", "X", "X">>,
       <<"X", "O", " ", "O", "X">>,
       <<"X", "O", "O", "O", "O">>,
       <<"O", "O", "O", "O", "X">> >>

Target4 ==
    << <<"X", "X", "X", "X", "X">>,
       <<"O", "O", "X", "O", "O">>,
       <<"O", "O", " ", "X", "X">>,
       <<"X", "O", "O", "X", "O">>,
       <<"O", "X", "O", "O", "X">> >>

AsBoard(rows) == [c \in Cells |-> rows[c[1] + 1][c[2] + 1]]

Targets == {AsBoard(Target1), AsBoard(Target2), AsBoard(Target3), AsBoard(Target4)}

RowMajor(c) == c[1] * BoardSize + c[2]

PlanAllows(x, y) ==
    /\ is_valid_position(x, y)
    /\ \E T \in Targets :
             /\ T[<<x, y>>] = turn
             /\ \A c \in Cells : board[c] # " " => board[c] = T[c]
             /\ \A c \in Cells :
                   (T[c] = turn /\ board[c] = " " /\ c # <<x, y>>)
                       => RowMajor(<<x, y>>) < RowMajor(c)

Placed == Cardinality({c \in Cells : board[c] # " "})
Pending == IF Len(messages[0]) > Len(messages[1]) THEN Len(messages[0]) ELSE Len(messages[1])
SomeIdle == \E t \in Threads : pc[t].kind = "idle"
FreeThread == First({t \in Threads : pc[t].kind = "idle"})

RegisterCall ==
    /\ SomeIdle
    /\ register_player(FreeThread)
    /\ UNCHANGED history_vars

PlaceCall ==
    /\ SomeIdle
    /\ lock = 0
    /\ \E x \in Coords, y \in Coords, pid \in PIDs :
          /\ place_piece(FreeThread, x, y, pid)
          /\ lock' # 0 => PlanAllows(x, y)
    /\ UNCHANGED history_vars

MoveCall ==
    /\ SomeIdle
    /\ lock = 0
    /\ nmoves < MaxMoves
    /\ \E src \in MoveSources, d \in Deltas, pid \in PIDs :
          /\ move_piece(FreeThread, src[1], src[2], src[1] + d[1], src[2] + d[2], pid)
          /\ nmoves' = IF lock' = 0 THEN nmoves ELSE nmoves + 1
    /\ UNCHANGED <<log, ndrained, nchat, view>>

PollCall ==
    /\ SomeIdle
    /\ \E pid \in PIDs : poll_messages_copy(FreeThread, pid)
    /\ UNCHANGED history_vars

PollReturn ==
    \E t \in Threads :
       /\ poll_messages_clear(t)
       /\ ndrained' = [ndrained EXCEPT ![pc[t].pid] = @ + Len(pc[t].msgs)]
       /\ view' = [view EXCEPT ![pc[t].pid] = process_gui_queue(@, pc[t].msgs)]
       /\ UNCHANGED <<log, nmoves, nchat>>

BroadcastStep ==
    \E t \in Threads :
       /\ broadcast_append(t)
       /\ log' = [log EXCEPT ![Keys[pc[t].key]] = Append(@, Head(pc[t].out))]
       /\ UNCHANGED <<ndrained, nmoves, nchat, view>>

ChatCall ==
    /\ SomeIdle
    /\ nchat < MaxChats
    /\ \E pid \in PIDs, message \in Texts : chat(FreeThread, pid, message)
    /\ nchat' = nchat + 1
    /\ UNCHANGED <<log, ndrained, nmoves, view>>

ResignCall ==
    /\ SomeIdle
    /\ nchat < MaxChats
    /\ \E pid \in PIDs : resign(FreeThread, pid)
    /\ nchat' = nchat + 1
    /\ UNCHANGED <<log, ndrained, nmoves, view>>

(* The game, from the first placement into the movement phase: both       *)
(* clients register as they start (ui.py 50-51) and then play.             *)
GamePlaceCall == Len(players) = MaxPlayers /\ PlaceCall
GameMoveCall == Len(players) = MaxPlayers /\ MoveCall

Next ==
    \/ RegisterCall
    \/ GamePlaceCall
    \/ GameMoveCall
    \/ BroadcastStep

Spec == Init /\ [][Next]_vars

(* The opening of the game, with polls, chat and resign calls beside it. *)
ConcPlaceCall == Placed < MaxConcPlaced /\ Pending <= MaxPending /\ PlaceCall

NextConc ==
    \/ RegisterCall
    \/ ConcPlaceCall
    \/ PollCall
    \/ PollReturn
    \/ ChatCall
    \/ ResignCall
    \/ BroadcastStep

SpecConc == Init /\ [][NextConc]_vars

(* The game with both clients polling: both register as they start, and a *)
(* placement or a move starts only when no mailbox holds more than         *)
(* MaxPending notifications.                                               *)
ViewPlaceCall == Len(players) = MaxPlayers /\ Pending <= MaxPending /\ PlaceCall
ViewMoveCall == Len(players) = MaxPlayers /\ Pending <= MaxPending /\ MoveCall
ViewPollCall == Len(players) = MaxPlayers /\ PollCall

NextView ==
    \/ RegisterCall
    \/ ViewPlaceCall
    \/ ViewMoveCall
    \/ ViewPollCall
    \/ PollReturn
    \/ BroadcastStep

SpecView == Init /\ [][NextView]_vars

(* check_win on its own: the engine holds any board built of the rows of   *)
(* WinRows with at most twelve pieces of a side, in either phase, and      *)
(* check_win is called on it once.                                         *)
WinRows ==
    { <<"X", "X", "X", "X", "X">>,
      <<"O", "O", "O", "O", "O">>,
      <<" ", " ", " ", " ", " ">>,
      <<"O", " ", " ", " ", " ">>,
      <<"O", "X", " ", "X", " ">>,
      <<"X", " ", "O", " ", "O">> }

InitWin ==
    /\ board \in {AsBoard(<<r1, r2, r3, r4, r5>>) :
                      r1 \in WinRows, r2 \in WinRows, r3 \in WinRows,
                      r4 \in WinRows, r5 \in WinRows}
    /\ \A s \in Sides : Count(board, s) <= InitialPieces
    /\ phase \in {1, 2}
    /\ turn = "X"
    /\ pieces = [s \in Sides |-> InitialPieces]
    /\ placements_this_turn = 0
    /\ players = <<>>
    /\ messages = [p \in PIDs |-> <<>>]
    /\ lock = 0
    /\ pc = [t \in Threads |-> Idle]
    /\ ret = Reply("init", <<>>, 0)
    /\ log = [p \in PIDs |-> <<>>]
    /\ ndrained = [p \in PIDs |-> 0]
    /\ nmoves = 0
    /\ nchat = 0
    /\ view = [p \in PIDs |-> [c \in Cells |-> ""]]

CheckWinCall ==
    /\ ret.op = "init"
    /\ ret' = Reply("check_win", << <<check_win(board, phase)>> >>, 0)
    /\ UNCHANGED <<game_vars, players, messages, lock, pc, history_vars>>

SpecWin == InitWin /\ [][CheckWinCall]_vars

-----------------------------------------------------------------------------
(* Properties of the mailboxes (under SpecConc)                            *)

Min(a, b) == IF a < b THEN a ELSE b
SameMsg(a, b) == Len(a) = Len(b) /\ a[1] = b[1] /\ a = b
SameSeq(s1, s2) == Len(s1) = Len(s2) /\ \A i \in 1..Len(s1) : SameMsg(s1[i], s2[i])
AllIdle == \A t \in Threads : pc[t].kind = "idle"
PollInFlight(p) == \E t \in Threads : pc[t].kind = "poll" /\ pc[t].pid = p
(* Thread t has appended its current notification to some mailboxes and    *)
(* not yet to the others.                                                  *)
PartialBroadcast(t) == pc[t].kind = "broadcast" /\ pc[t].key > 1

(* C1. Mailbox ordering: what has been delivered to mailbox 0 and what has *)
(* been delivered to mailbox 1 are the same notifications in the same      *)
(* order: at every moment the two histories agree on their common length,  *)
(* and they are equal whenever no handler is running.                      *)
C1_MailboxOrdering ==
    /\ \A i \in 1..Min(Len(log[0]), Len(log[1])) : SameMsg(log[0][i], log[1][i])
    /\ AllIdle => SameSeq(log[0], log[1])

(* C2. No message loss: whenever participant p has no poll running, the    *)
(* notifications pending in p's mailbox are exactly those delivered to it  *)
(* that p's polls have not returned yet.                                   *)
C2_NoMessageLoss ==
    \A p \in PIDs :
        ~PollInFlight(p) =>
            /\ ndrained[p] + Len(messages[p]) = Len(log[p])
            /\ SameSeq(messages[p], SubSeq(log[p], ndrained[p] + 1, Len(log[p])))

(* C3. A broadcast is atomic for the drains: no poll is inside its locked  *)
(* section while a notification sits in some mailboxes and not in others.  *)
C3_BroadcastAtomicForDrains ==
    \A t \in Threads, u \in Threads :
        pc[t].kind = "poll" => ~PartialBroadcast(u)

-----------------------------------------------------------------------------
(* Properties of the registration and of the game (under Spec)             *)

(* The reply of a place_piece or move_piece call that was refused. *)
IsRejection(r) ==
    /\ r.op \in {"place_piece", "move_piece"}
    /\ Len(r.msgs) > 0 => r.msgs[1][1] # "MOVE"

Rejections ==
    {NotYourTurn, WrongPhasePlace, WrongPhaseMove, InvalidPosition, AllotmentExhausted,
     NotOwner, DestinationOccupied, IllegalDistance}

(* The engine's fields after outcome r are the present ones. *)
LeavesEngine(r) ==
    /\ r.board = board
    /\ r.turn = turn
    /\ r.pieces = pieces
    /\ r.phase = phase
    /\ r.placements_this_turn = placements_this_turn

Distance(a, b) == Abs(a[1] - b[1]) + Abs(a[2] - b[2])
AllPlaces == Coords \X Coords

(* The side of the opponent of the mover lost a piece in this step. *)
CapturedInStep == Count(board', Other(turn)) < Count(board, Other(turn))

(* C4. Registration: the registered ids are always a prefix of 0, 1; a     *)
(* call that finds room returns the next id and appends it; a call that    *)
(* finds the session full returns -1 and leaves the registration list, the *)
(* mailboxes and the engine as they are.                                   *)
C4_Registration ==
    /\ [](players \in {<<>>, <<0>>, <<0, 1>>})
    /\ [][(ret'.op = "register_player" /\ SomeIdle /\ register_player(FreeThread)) =>
            IF Len(players) < MaxPlayers
            THEN ret'.code = Len(players) /\ players' = Append(players, Len(players))
            ELSE ret'.code = 0 - 1 /\ UNCHANGED <<players, messages, game_vars>>]_vars

C4_Witness ==
    ret.op = "register_player" /\ ret.code = 0 - 1 /\ players = <<0, 1>> /\ Placed > 0

(* C5. A refused place_piece or move_piece call leaves the engine, the     *)
(* mailboxes and the pending broadcasts as they are, and returns exactly   *)
(* one explanatory string.                                                 *)
C5_RejectionsChangeNothing ==
    [][IsRejection(ret') =>
         /\ UNCHANGED <<game_vars, players, messages, lock, pc, log>>
         /\ Len(ret'.msgs) = 1
         /\ Len(ret'.msgs[1]) = 1
         /\ ret'.msgs[1] \in Rejections]_vars

C5_Witness ==
    /\ ret = Reply("move_piece", <<DestinationOccupied>>, 0)
    /\ phase = 2
    /\ \A p \in PIDs : Len(messages[p]) > 0

(* C6. Before any move, fewer than 24 pieces on the board means the        *)
(* Placement phase; with 24 pieces on the board (12 of each side) the      *)
(* phase is Movement and both allotments are 0.                            *)
C6_TwentyFourPlacements ==
    /\ (nmoves = 0 /\ Placed < 2 * InitialPieces) => phase = 1
    /\ Placed = 2 * InitialPieces =>
          /\ phase = 2
          /\ pieces["X"] = 0 /\ pieces["O"] = 0
          /\ Count(board, "X") = InitialPieces /\ Count(board, "O") = InitialPieces

C6_Witness == Placed = 2 * InitialPieces /\ phase = 2 /\ nmoves = 0

(* C7. In the Placement phase the center cell is empty, and placing on an  *)
(* occupied cell or on the center cell is refused as an invalid position   *)
(* and leaves the engine as it is.                                         *)
C7_OccupiedOrCenterRefused ==
    phase = 1 =>
        /\ board[Center] = " "
        /\ \A c \in Cells :
              (board[c] # " " \/ c = Center) =>
                  LET r == SeegaGame_place_piece(c[1], c[2])
                  IN ~r.ok /\ r.msg = InvalidPosition /\ LeavesEngine(r)

C7_Witness ==
    ret = Reply("place_piece", <<InvalidPosition>>, 0) /\ phase = 1 /\ Placed > 2

(* C8 as claimed: in the Movement phase every move between two cells whose *)
(* distance is not 1 is refused as an illegal distance, the board          *)
(* unchanged.                                                              *)
C8_AlwaysIllegalDistance ==
    phase = 2 =>
        \A src \in Cells, dst \in Cells :
            Distance(src, dst) # 1 =>
                LET r == SeegaGame_move_piece(src[1], src[2], dst[1], dst[2])
                IN ~r.ok /\ r.msg = IllegalDistance /\ r.board = board

(* C8, amended. A move whose distance is not 1 is always refused and       *)
(* leaves the engine as it is; it is refused as an illegal distance        *)
(* exactly when the earlier tests pass: the phase is Movement, both places *)
(* are on the board, the source holds a piece of the side to move and the  *)
(* destination is empty.                                                   *)
C8_DistanceRefused ==
    \A src \in AllPlaces, dst \in AllPlaces :
        Distance(src, dst) # 1 =>
            LET r == SeegaGame_move_piece(src[1], src[2], dst[1], dst[2])
            IN /\ ~r.ok
               /\ LeavesEngine(r)
               /\ r.msg = IllegalDistance <=>
                      /\ phase = 2
                      /\ is_valid_position(src[1], src[2])
                      /\ is_valid_position(dst[1], dst[2])
                      /\ board[src] = turn
                      /\ board[dst] = " "

C8_Witness == ret = Reply("move_piece", <<IllegalDistance>>, 0) /\ phase = 2

(* C9. After a successful move that captures, the side to move is still    *)
(* the mover's.                                                            *)
C9_CaptureKeepsTurn ==
    [][(nmoves' = nmoves + 1 /\ CapturedInStep) => turn' = turn]_vars

C9_Witness ==
    /\ ret.op = "move_piece"
    /\ \E i \in 1..Len(ret.msgs) : ret.msgs[i][1] = "CAPTURE"
    /\ turn = ret.msgs[1][6]

(* C10 as claimed: after a successful move that captures nothing, the side *)
(* to move is the mover's opponent.                                        *)
C10_NoCapturePassesTurn ==
    [][(nmoves' = nmoves + 1 /\ ~CapturedInStep) => turn' = Other(turn)]_vars

(* C10, amended. After a successful move that captures nothing and after   *)
(* which no winner is detected, the side to move is the mover's opponent.  *)
C10_QuietMovePassesTurn ==
    [][(nmoves' = nmoves + 1 /\ ~CapturedInStep /\ check_win(board', phase') = NoWinner)
          => turn' = Other(turn)]_vars

C10_Witness ==
    /\ ret.op = "move_piece"
    /\ Len(ret.msgs) = 2
    /\ ret.msgs[1][1] = "MOVE"
    /\ turn = Other(ret.msgs[1][6])

-----------------------------------------------------------------------------
(* Properties of the end of the game and of the notifications (under Spec) *)

(* A step that is a place_piece or move_piece call: under Spec the lock is *)
(* free only between handlers, and the reply names the handler.            *)
GameCallStep == lock = 0 /\ ret'.op \in {"place_piece", "move_piece"}

(* A step that is a successful move; a successful placement. *)
MoveStep == nmoves' = nmoves + 1
PlaceStep == Placed < 2 * InitialPieces /\ nmoves = 0 /\
             Cardinality({c \in Cells : board'[c] # " "}) = Placed + 1

(* The reply in ret is that of a successful placement; of a successful     *)
(* move.                                                                   *)
PlaceSucceeded == ret.op = "place_piece" /\ ret.msgs[1][1] = "MOVE"
MoveSucceeded == ret.op = "move_piece" /\ ret.msgs[1][1] = "MOVE"

(* The positions of the notifications of kind k in msgs. *)
OfKind(msgs, k) == {i \in 1..Len(msgs) : msgs[i][1] = k}

(* The cells of side s that the step empties. *)
RemovedInStep(s) == {c \in Cells : board[c] = s /\ board'[c] = " "}

(* C11. Terminal state: once a winner is detected, every further           *)
(* place_piece and move_piece call is refused and the board, the turn, the *)
(* allotments and the phase never change again.                            *)
C11_TerminalState ==
    [][check_win(board, phase) # NoWinner =>
          /\ UNCHANGED game_vars
          /\ GameCallStep => IsRejection(ret')]_vars

(* C12. The CAPTURE notifications of a successful move name exactly the    *)
(* cells the move emptied of an enemy piece, each once, and the number of  *)
(* the opponent's pieces on the board drops by their number; the mover     *)
(* loses none.                                                             *)
C12_CaptureNotifications ==
    [][MoveStep =>
          LET enemy == Other(turn)
              caps == OfKind(ret'.msgs, "CAPTURE")
          IN /\ {<<ret'.msgs[i][2], ret'.msgs[i][3]>> : i \in caps} = RemovedInStep(enemy)
             /\ Cardinality(caps) = Cardinality(RemovedInStep(enemy))
             /\ Count(board', enemy) = Count(board, enemy) - Cardinality(caps)
             /\ Count(board', turn) = Count(board, turn)]_vars

C12_Witness ==
    MoveSucceeded /\ Cardinality(OfKind(ret.msgs, "CAPTURE")) = 3

(* C13 as claimed: the notifications of a successful placement are exactly *)
(* one MOVE followed by one TURN.                                          *)
C13_OnlyMoveAndTurn ==
    PlaceSucceeded =>
        /\ Len(ret.msgs) = 2
        /\ ret.msgs[2][1] = "TURN"

(* C13, amended. The notifications of a successful placement are one MOVE  *)
(* naming the cell and the side placed there, one TURN carrying the side   *)
(* to move and the phase after it and, exactly when a winner is detected   *)
(* on the board it leaves, one GAME_OVER naming that winner; that happens  *)
(* only for the placement that fills the board, never while the phase is   *)
(* still Placement.                                                        *)
C13_GameOverOnlyAfterLastPlacement ==
    PlaceSucceeded =>
        LET m == ret.msgs
            w == check_win(board, phase)
        IN /\ Len(m) \in {2, 3}
           /\ Len(m[1]) = 4
           /\ board[<<m[1][2], m[1][3]>>] = m[1][4]
           /\ SameMsg(m[2], TurnMsg(turn, phase))
           /\ Len(m) = 3 <=> w # NoWinner
           /\ Len(m) = 3 =>
                 /\ SameMsg(m[3], GameOverMsg(w))
                 /\ phase = 2
                 /\ Placed = 2 * InitialPieces
           /\ phase = 1 => Len(m) = 2

C13_Witness ==
    PlaceSucceeded /\ Len(ret.msgs) = 3 /\ ret.msgs[3][1] = "GAME_OVER" /\ lock = 0

(* C14. A successful move returns one MOVE (source, destination, the       *)
(* mover's side), then one TURN carrying the side to move and the phase    *)
(* after the move, then one CAPTURE per piece taken, then one GAME_OVER    *)
(* exactly when a winner is detected on the board after the move; and when *)
(* the handler has returned, these are, in this order, the last            *)
(* notifications delivered to every mailbox.                               *)
C14_MoveNotifications ==
    /\ [][MoveStep =>
            LET m == ret'.msgs
                w == check_win(board', phase')
                k == Cardinality(RemovedInStep(Other(turn)))
            IN /\ Len(m) = 2 + k + (IF w # NoWinner THEN 1 ELSE 0)
               /\ \E src \in Cells, dst \in Cells :
                     /\ board[src] = turn /\ board[dst] = " " /\ board'[dst] = turn
                     /\ SameMsg(m[1], MoveMsg6(src[1], src[2], dst[1], dst[2], turn))
               /\ SameMsg(m[2], TurnMsg(turn', phase'))
               /\ \A i \in 3..(2 + k) : m[i][1] = "CAPTURE"
               /\ w # NoWinner => SameMsg(m[Len(m)], GameOverMsg(w))
               /\ w = NoWinner => OfKind(m, "GAME_OVER") = {}]_vars
    /\ []((MoveSucceeded /\ lock = 0) =>
            \A p \in PIDs :
               /\ Len(log[p]) >= Len(ret.msgs)
               /\ SameSeq(SubSeq(log[p], Len(log[p]) - Len(ret.msgs) + 1, Len(log[p])),
                          ret.msgs)
               /\ Len(messages[p]) >= Len(ret.msgs)
               /\ SameSeq(SubSeq(messages[p], Len(messages[p]) - Len(ret.msgs) + 1,
                                 Len(messages[p])), ret.msgs))

C14_Witness ==
    /\ MoveSucceeded /\ lock = 0
    /\ ret.msgs[Len(ret.msgs)][1] = "GAME_OVER"
    /\ \A p \in PIDs : Len(log[p]) > Len(ret.msgs)

-----------------------------------------------------------------------------
(* Properties of the drain (under SpecConc)                                *)

(* C15. When a poll of participant p returns, it returns the notifications *)
(* pending in p's mailbox, in their order, and leaves that mailbox empty;  *)
(* the other mailbox and the engine are as they were.                      *)
C15_DrainFrame ==
    [][\A t \in Threads :
          (pc[t].kind = "poll" /\ pc'[t].kind = "idle") =>
              LET p == pc[t].pid
              IN /\ SameSeq(ret'.msgs, messages[p])
                 /\ messages'[p] = <<>>
                 /\ messages'[1 - p] = messages[1 - p]
                 /\ UNCHANGED game_vars]_vars

-----------------------------------------------------------------------------
(* Properties of the rules (under Spec, and SpecWin for C17)               *)

(* The cell c is taken by a piece of side t that lands on dst: c is next   *)
(* to dst and holds an enemy piece, and the cell beyond c, seen from dst,  *)
(* is on the board and holds a piece of side t.                            *)
Taken(b, t, dst, c) ==
    LET beyond == <<2 * c[1] - dst[1], 2 * c[2] - dst[2]>>
    IN /\ Distance(c, dst) = 1
       /\ b[c] = Other(t)
       /\ beyond \in Cells
       /\ b[beyond] = t

(* C16. Custodial capture: a successful move empties its source, puts the  *)
(* mover's piece on its destination, empties exactly the cells next to the *)
(* destination that hold an enemy piece with a piece of the mover beyond   *)
(* it, all of them in that move, and changes no other cell.                *)
C16_CustodialCapture ==
    [][MoveStep =>
          LET src == <<ret'.msgs[1][2], ret'.msgs[1][3]>>
              dst == <<ret'.msgs[1][4], ret'.msgs[1][5]>>
          IN /\ board'[src] = " "
             /\ board'[dst] = turn
             /\ \A c \in Cells \ {src, dst} :
                   board'[c] = IF Taken(board, turn, dst, c) THEN " " ELSE board[c]]_vars

C16_Witness ==
    /\ MoveSucceeded
    /\ \E i \in OfKind(ret.msgs, "CAPTURE"), j \in OfKind(ret.msgs, "CAPTURE") :
          /\ ret.msgs[i][2] = ret.msgs[1][4] /\ ret.msgs[i][3] # ret.msgs[1][5]
          /\ ret.msgs[j][3] = ret.msgs[1][5] /\ ret.msgs[j][2] # ret.msgs[1][4]

(* The sides with no piece on b; the sides that fill a row or a column. *)
Eliminated(b) == {s \in Sides : \A c \in Cells : b[c] # s}
LineOwners(b) ==
    {s \in Sides : \/ \E r \in Rows : \A c \in Rows : b[<<r, c>>] = s
                   \/ \E c \in Rows : \A r \in Rows : b[<<r, c>>] = s}

(* The reference rule: the results it allows for board b in phase ph. *)
ReferenceWinners(b, ph) ==
    IF ph # 2 THEN {NoWinner}
    ELSE IF Eliminated(b) # {} THEN {Other(s) : s \in Eliminated(b)}
    ELSE IF LineOwners(b) # {} THEN LineOwners(b)
    ELSE {NoWinner}

(* C17. check_win follows the reference rule on every board: no winner in  *)
(* Placement; in Movement the opponent of a side with no piece on the      *)
(* board, else a side that fills a row or a column, else no winner.        *)
C17_WinDetection ==
    ret.op = "check_win" => ret.msgs[1][1] \in ReferenceWinners(board, phase)

C17_Witness ==
    /\ ret.op = "check_win"
    /\ ret.msgs[1][1] = "O"
    /\ phase = 2
    /\ Eliminated(board) = {}
    /\ \A r \in Rows : \E c \in Rows : board[<<r, c>>] # board[<<r, 0>>]

(* C18. Each allotment counter stays within 0..12 and changes only when    *)
(* its side places a piece, by a decrement of 1.                           *)
C18_AllotmentCounters ==
    [][\A s \in Sides :
          /\ pieces'[s] \in 0..InitialPieces
          /\ pieces'[s] # pieces[s] =>
                (PlaceStep /\ turn = s /\ pieces'[s] = pieces[s] - 1)]_vars

(* C19. During Placement the counter of placements of the turn is 0 or 1   *)
(* between calls; the first successful placement of a turn leaves the side *)
(* to move and sets the counter to 1, the second passes the turn and       *)
(* resets the counter; a refused placement changes neither.                *)
C19_TurnEverySecondPlacement ==
    /\ [](placements_this_turn \in {0, 1})
    /\ [][PlaceStep =>
            /\ \E c \in Cells : board[c] = " " /\ board'[c] = turn
            /\ IF placements_this_turn = 0
               THEN turn' = turn /\ placements_this_turn' = 1
               ELSE turn' = Other(turn) /\ placements_this_turn' = 0]_vars
    /\ [][(GameCallStep /\ ret'.op = "place_piece" /\ IsRejection(ret')) =>
            UNCHANGED <<turn, placements_this_turn>>]_vars

C19_Witness ==
    /\ PlaceSucceeded
    /\ phase = 1
    /\ Placed = 4
    /\ placements_this_turn = 0
    /\ turn = "X"
    /\ ret.msgs[1][4] = "O"

(* C20 as claimed: the placement that takes the phase from Placement to    *)
(* Movement leaves the side to move as it was.                             *)
C20_TransitionKeepsSide ==
    [][(phase = 1 /\ phase' = 2) => turn' = turn]_vars

(* C20, amended. The placement that takes the phase from Placement to      *)
(* Movement changes the side to move as any placement does: it is the      *)
(* second placement of O's turn, so it passes the turn to X and resets the *)
(* counter; the transition adds no change of its own.                      *)
C20_TransitionPassesTurnByRule ==
    [][(phase = 1 /\ phase' = 2) =>
          /\ placements_this_turn = 1
          /\ placements_this_turn' = 0
          /\ turn = "O"
          /\ turn' = "X"
          /\ pieces = [s \in Sides |-> IF s = "O" THEN 1 ELSE 0]]_vars

C20_Witness ==
    /\ PlaceSucceeded
    /\ phase = 2
    /\ lock = 0
    /\ turn = "X"
    /\ ret.msgs[1][4] = "O"
    /\ SameMsg(ret.msgs[2], TurnMsg("X", 2))

-----------------------------------------------------------------------------
(* Properties of the whole game                                            *)

(* The engine accepts some move of the side to move. *)
SomeMoveAccepted ==
    \E src \in Cells, dst \in Cells :
        SeegaGame_move_piece(src[1], src[2], dst[1], dst[2]).ok

(* C22. No stuck game (under Spec): in the Movement phase, while no winner *)
(* is detected, the side to move has a move the engine accepts.            *)
C22_NoStuckGame ==
    (phase = 2 /\ check_win(board, phase) = NoWinner) => SomeMoveAccepted

(* C23. Registered actors only (under SpecConc): the engine's fields       *)
(* change only in a call made with a registered id, that is, only when the *)
(* id of the side to move has been returned by register_player.            *)
C23_RegisteredActorsOnly ==
    [][game_vars' # game_vars =>
          \E i \in 1..Len(players) : get_symbol(players[i]) = turn]_vars

(* What a client's cells show, in the engine's symbols. *)
Shown(v) == [c \in Cells |-> IF v[c] = "" THEN " " ELSE v[c]]

(* C21. View consistency (under SpecView): between handlers, whenever a    *)
(* participant's mailbox is empty, the cells its client has built from     *)
(* all the notifications its polls returned show the coordinator's board.  *)
C21_ViewConsistency ==
    \A p \in PIDs :
        (lock = 0 /\ messages[p] = <<>>) => Shown(view[p]) = board

C21_Witness ==
    /\ lock = 0
    /\ \A p \in PIDs : messages[p] = <<>> /\ Shown(view[p]) = board
    /\ nmoves = 2
    /\ Count(board, "O") < InitialPieces

====
